---- MODULE Spec2Model ----
(***************************************************************************)
(* Run orchestration core of datamonkey/backend/run_manager.py:            *)
(* RunRecord / StepRecord, the per-run event consumer and runner tasks,    *)
(* the log bridge on the root logger and the in-process fan-out queues.    *)
(*                                                                         *)
(* One asyncio event loop runs every task, so an action is the code a task *)
(* executes between two suspension points.                                 *)
(***************************************************************************)
EXTENDS Integers, Sequences, FiniteSets, TLC

VARIABLES
    runs,           \* RunManager._runs: run id -> RunRecord
    disk,           \* .runs/<id>/run.json and logs.ndjson: run id -> [state, log]
    runStateSubs,   \* RunManager._run_state_subscribers (queue ids)
    stateQueues,    \* run-state subscriber queues: queue id -> [put, taken]
    logQueues,      \* log subscriber queues: queue id -> [run, put, taken]
    subHist,        \* log queue id -> [at, cut]: log length at subscribe and at removal
    bus,            \* event bus: consumer's run id -> queue of events
    ready,          \* tasks created and not yet started, in creation order
    cpc,            \* run id -> position of the event-consumer task
    rpc,            \* run id -> position of the runner task
    loop,           \* run whose consumer holds the event loop mid-drain, or NoRun
    frame,          \* run id -> locals of _run (previous_level, previous_levels, outcome)
    logging,        \* logging module state: root level, root handlers, named levels
    marker,         \* run id -> CURRENT_RUN_ID in that runner task's context
    published,      \* run id -> events the executor has published, in order
    emitted,        \* run id -> number of log records emitted under its marker
    origLevels,     \* logger levels before the first run started
    now,            \* time.time()
    caller,         \* what the last call that returned no record or queue gave its caller
    remote,         \* remote-store tasks that have run and failed: [push, persist] counts
    flow,           \* one TestFlow.execute call: configured steps, position, what it did
    wait            \* one SyncStep._wait_for_sync_completion call: position, polls, sleeps

vars == <<runs, disk, runStateSubs, stateQueues, logQueues, subHist, bus, ready, cpc, rpc,
          loop, frame, logging, marker, published, emitted, origLevels, now,
          caller, remote, flow, wait>>

----------------------------------------------------------------------------
(* Values *)

\* Python None in an Optional[float] field, and an absent key of an event.
None == -1
\* CURRENT_RUN_ID's default (no run is current); run ids are 1, 2, ...
NoRun == 0
\* a duration that float() rejects (a string that is not a number)
NotNumeric == -2

\* logging levels
NOTSET == 0
DEBUG == 10
INFO == 20
WARNING == 30

\* The loggers _run lowers for the run's duration.
noisy_loggers ==
    {"uvicorn", "uvicorn.access", "uvicorn.error", "uvicorn.asgi",
     "httpx", "starlette", "fastapi"}

----------------------------------------------------------------------------
(* Bounds *)

\* runs a behaviour may start
MaxRuns == 2
\* events one executor may publish
MaxEvents == 3
\* events one executor may publish when two runs are compared
MaxPairEvents == 1
\* events one executor may publish when subscribers are attached
MaxFanoutEvents == 2
\* log records one executor may emit
MaxRecords == 2
\* subscriber queues of each kind a behaviour may create
MaxQueues == 2
\* items the owner of a subscriber queue may take from it
MaxTakes == 2
\* asyncio.Queue(maxsize=1000), scaled
QueueMaxSize == 2
\* the replay window run.logs[-200:], scaled (kept below QueueMaxSize as 200 < 1000)
ReplayWindow == 1

----------------------------------------------------------------------------
(* StepRecord and RunRecord *)

\* str.lower() on the step names in use
Lower(s) ==
    CASE s = "Create" -> "create"
      [] s = "Sync" -> "sync"
      [] OTHER -> s

StepRecord(name, index) ==
    [name |-> name, index |-> index, status |-> "pending",
     started_at |-> None, ended_at |-> None, duration |-> None]

\* the step list built from the declared names as they are written
BuildStepsVerbatim(names) ==
    [i \in 1..Len(names) |-> StepRecord(names[i], i - 1)]

\* steps = [StepRecord(name=s.lower(), index=i) for i, s in enumerate(cfg.test_flow.steps)]
BuildSteps(names) ==
    [i \in 1..Len(names) |-> StepRecord(Lower(names[i]), i - 1)]

\* config_path names the configuration file; a configuration is identified here by
\* the step list it declares
RunRecord(id, names) ==
    [id |-> id, config_path |-> names, steps |-> BuildSteps(names), status |-> "queued",
     started_at |-> None, ended_at |-> None, logs |-> <<>>, subscribers |-> {}]

\* seq[-1]
Last(seq) == seq[Len(seq)]

Terminal == {"passed", "failed"}

anyFailed(rec) == \E i \in 1..Len(rec.steps) : rec.steps[i].status = "failed"

\* progress() counting the running and passed steps as done
progressUnfailed(rec) ==
    IF Len(rec.steps) = 0
    THEN <<0, 1>>
    ELSE <<Cardinality({i \in 1..Len(rec.steps) : rec.steps[i].status \in {"running", "passed"}}),
           Len(rec.steps)>>

\* RunRecord.progress(), as the fraction <<numerator, denominator>>; 0.0 is <<0, 1>>
progress(rec) ==
    IF Len(rec.steps) = 0
    THEN <<0, 1>>
    ELSE <<Cardinality({i \in 1..Len(rec.steps) : rec.steps[i].status \in Terminal}),
           Len(rec.steps)>>

\* the payload persist_state writes to run.json
StatePayload(rec) ==
    [id |-> rec.id, config_path |-> rec.config_path, status |-> rec.status,
     started_at |-> rec.started_at, ended_at |-> rec.ended_at,
     progress |-> progress(rec), steps |-> rec.steps]

\* the payload _broadcast_run_state_local puts on every run-state queue
Snapshot(rec) ==
    [id |-> rec.id, status |-> rec.status, progress |-> progress(rec),
     started_at |-> rec.started_at, ended_at |-> rec.ended_at]

----------------------------------------------------------------------------
(* asyncio.Queue(maxsize): put holds everything put so far, taken counts gets *)

qsize(q) == Len(q.put) - q.taken

full(q) == qsize(q) >= QueueMaxSize

put_nowait(q, item) == [q EXCEPT !.put = Append(@, item)]

----------------------------------------------------------------------------
(* Fan-out *)

\* broadcast that leaves a full queue in the subscriber set
BroadcastKeepsDead(b, message) ==
    LET subs == b.rec.subscribers
    IN  [rec |-> [b.rec EXCEPT !.logs = Append(@, message)],
         log |-> Append(b.log, message),
         lq  |-> [q \in DOMAIN b.lq |->
                    IF q \in subs /\ ~full(b.lq[q])
                    THEN put_nowait(b.lq[q], message)
                    ELSE b.lq[q]]]

\* RunRecord.broadcast on the bundle b = [rec, lq (log queues), log (logs.ndjson)]
broadcast(b, message) ==
    LET subs == b.rec.subscribers
        dead == {q \in subs : full(b.lq[q])}
    IN  [rec |-> [b.rec EXCEPT !.logs = Append(@, message),
                               !.subscribers = @ \ dead],
         log |-> Append(b.log, message),
         lq  |-> [q \in DOMAIN b.lq |->
                    IF q \in subs \ dead THEN put_nowait(b.lq[q], message) ELSE b.lq[q]]]

\* RunManager._broadcast_run_state_local on b = [subs, sq (run-state queues)]
_broadcast_run_state_local(b, rec) ==
    LET dead == {q \in b.subs : full(b.sq[q])}
    IN  [subs |-> b.subs \ dead,
         sq   |-> [q \in DOMAIN b.sq |->
                     IF q \in b.subs \ dead
                     THEN put_nowait(b.sq[q], Snapshot(rec))
                     ELSE b.sq[q]]]

\* The part of the state a log line touches: w = [runs, disk, lq, gh].
World == [runs |-> runs, disk |-> disk, lq |-> logQueues, gh |-> subHist]

\* run r's broadcast(message) in w; gh notes the log length at which a queue is dropped
WBroadcast(w, r, message) ==
    LET a == broadcast([rec |-> w.runs[r], lq |-> w.lq, log |-> w.disk[r].log], message)
        gone == w.runs[r].subscribers \ a.rec.subscribers
    IN  [runs |-> [w.runs EXCEPT ![r] = a.rec],
         disk |-> [w.disk EXCEPT ![r].log = a.log],
         lq   |-> a.lq,
         gh   |-> [q \in DOMAIN w.gh |->
                     IF q \in gone
                     THEN [w.gh[q] EXCEPT !.cut = Len(w.runs[r].logs)]
                     ELSE w.gh[q]]]

\* run r's persist_state() in w
WPersist(w, r) == [w EXCEPT !.disk[r].state = StatePayload(w.runs[r])]

----------------------------------------------------------------------------
(* The log bridge: _RunLogHandler on the root logger, filtered by _RunContextFilter *)

ERROR == 40

\* logger name -> parent in the logging hierarchy ("root" for a top-level name)
ParentLogger(name) ==
    IF name \in {"uvicorn.access", "uvicorn.error", "uvicorn.asgi"} THEN "uvicorn" ELSE "root"

\* Logger.getEffectiveLevel: the first level set on the way to the root
EffectiveLevel(lg, name) ==
    LET own == IF name \in DOMAIN lg.levels THEN lg.levels[name] ELSE NOTSET
        par == ParentLogger(name)
        up  == IF par \in DOMAIN lg.levels THEN lg.levels[par] ELSE NOTSET
    IN  IF own # NOTSET THEN own
        ELSE IF up # NOTSET THEN up
        ELSE lg.root

\* a filter that lets every record through
FilterAcceptsAll(run_id, current) == TRUE

\* _RunContextFilter.filter for the handler bound to run_id, CURRENT_RUN_ID = current
filter(run_id, current) == current = run_id

\* the root handlers whose emit runs for a record: Logger.isEnabledFor, then for each
\* handler its level (INFO, set in _RunLogHandler.__init__) and its filter
Receivers(lg, current, record) ==
    IF record.level < EffectiveLevel(lg, record.logger)
    THEN {}
    ELSE {h \in lg.handlers : record.level >= INFO /\ filter(h, current)}

\* Formatter output for a record; ctx is the marker that was current at the call
RecordLine(current, record) ==
    [kind |-> "record", ctx |-> current, text |-> record.logger, n |-> record.n]

\* _RunLogHandler.emit on every receiving handler: broadcast, then persist_state
RECURSIVE EmitAll(_, _, _)
EmitAll(w, hs, line) ==
    IF hs = {}
    THEN w
    ELSE LET h == CHOOSE x \in hs : TRUE
         IN  EmitAll(WPersist(WBroadcast(w, h, line), h), hs \ {h}, line)

\* a logger call made with CURRENT_RUN_ID = current
Dispatch(w, lg, current, record) ==
    EmitAll(w, Receivers(lg, current, record), RecordLine(current, record))

----------------------------------------------------------------------------
(* Events and the state machine of _consume_events *)

FlowTypes == {"flow_started", "flow_completed", "flow_failed"}
StepTypes == {"step_started", "step_completed", "step_failed"}

\* an event as the executor publishes it; ts, duration = None stand for an absent key
Event(type, run_id, step, ts, duration) ==
    [type |-> type, run_id |-> run_id, step |-> step, ts |-> ts, duration |-> duration]

\* a step field that is not a str (a number, None): it has no lower()
NotAString == "<not a str>"

\* something on the bus that is not a dict
NotADict ==
    [type |-> "<not a dict>", run_id |-> NoRun, step |-> "", ts |-> None, duration |-> None]

\* isinstance(ev, dict)
IsDict(ev) == ev # NotADict

\* the consumer handling whatever comes off the bus
AcceptsAny(ev, r) == TRUE

\* the two filters at the top of the consumer's loop: the event is a dict and its
\* run_id is the record's id
Accepts(ev, r) == IsDict(ev) /\ ev.run_id = r

\* ev.get("ts", time.time())
TsOf(ev, t) == IF ev.ts = None THEN t ELSE ev.ts

\* Python truthiness of an Optional[float]: None and 0 are false
Truthy(x) == x # None /\ x # 0

\* index of the last step with this name whose status is in statuses, 0 if none
LastMatch(steps, name, statuses) ==
    LET idx == {i \in 1..Len(steps) : steps[i].name = name /\ steps[i].status \in statuses}
    IN  IF idx = {} THEN 0 ELSE CHOOSE i \in idx : \A j \in idx : i >= j

\* index of the first step with this name whose status is in statuses, 0 if none
FirstMatch(steps, name, statuses) ==
    LET idx == {i \in 1..Len(steps) : steps[i].name = name /\ steps[i].status \in statuses}
    IN  IF idx = {} THEN 0 ELSE CHOOSE i \in idx : \A j \in idx : i <= j

\* the body of the step_completed / step_failed branch for the matched step s;
\* status and ended_at are assigned before float(dur) is evaluated, so when float
\* raises the step keeps the duration it had
FinishStep(s, ev, t, status) ==
    LET ended == TsOf(ev, t)
    IN  [s EXCEPT !.status = status,
                  !.ended_at = ended,
                  !.duration = IF ev.duration = NotNumeric THEN @
                               ELSE IF ev.duration # None THEN ev.duration
                               ELSE IF Truthy(s.started_at) THEN ended - s.started_at
                               ELSE None]

\* et == "flow_started"
OnFlowStarted(rec, ev, t) ==
    [rec EXCEPT !.status = "running", !.started_at = TsOf(ev, t)]

\* the step_started branch matching the step by its name alone
OnStepStartedAnyStatus(rec, ev, t) ==
    LET i == FirstMatch(rec.steps, Lower(ev.step), {"pending", "running", "passed", "failed"})
    IN  IF i = 0 THEN rec
        ELSE [rec EXCEPT !.steps[i].status = "running",
                         !.steps[i].started_at = TsOf(ev, t)]

\* et == "step_started"
OnStepStarted(rec, ev, t) ==
    LET i == FirstMatch(rec.steps, Lower(ev.step), {"pending"})
    IN  IF i = 0 THEN rec
        ELSE [rec EXCEPT !.steps[i].status = "running",
                         !.steps[i].started_at = TsOf(ev, t)]

\* the step_completed / step_failed branch matching the step by its name alone
OnStepFinishedAnyStatus(rec, ev, t, status) ==
    LET i == FirstMatch(rec.steps, Lower(ev.step), {"pending", "running", "passed", "failed"})
    IN  IF i = 0 THEN rec
        ELSE [rec EXCEPT !.steps[i] = FinishStep(@, ev, t, status)]

\* et == "step_completed" (status "passed"), et == "step_failed" (status "failed")
OnStepFinished(rec, ev, t, status) ==
    LET i == FirstMatch(rec.steps, Lower(ev.step), {"running", "pending"})
    IN  IF i = 0 THEN rec
        ELSE [rec EXCEPT !.steps[i] = FinishStep(@, ev, t, status)]

\* the flow-end branch taking the verdict from the type of the event
OnFlowEndedByTag(rec, ev, t) ==
    [rec EXCEPT !.ended_at = TsOf(ev, t),
                !.status = IF ev.type = "flow_failed" THEN "failed" ELSE "passed"]

\* et in ("flow_completed", "flow_failed")
OnFlowEnded(rec, ev, t) ==
    [rec EXCEPT !.ended_at = TsOf(ev, t),
                !.status = IF anyFailed(rec) THEN "failed" ELSE "passed"]

\* the if/elif chain of _consume_events for an event addressed to this run
ApplyEvent(rec, ev, t) ==
    CASE ev.type = "flow_started" -> OnFlowStarted(rec, ev, t)
      [] ev.type = "step_started" -> OnStepStarted(rec, ev, t)
      [] ev.type = "step_completed" -> OnStepFinished(rec, ev, t, "passed")
      [] ev.type = "step_failed" -> OnStepFinished(rec, ev, t, "failed")
      [] ev.type \in {"flow_completed", "flow_failed"} -> OnFlowEnded(rec, ev, t)
      [] OTHER -> rec

\* applying ev to rec raises: ev.get("step", "").lower() on a step that is not a str,
\* in each of the three step branches, or float(dur) on a duration that is not a number,
\* which is only evaluated once a step has matched
Raises(rec, ev) ==
    \/ /\ ev.type \in StepTypes
       /\ ev.step = NotAString
    \/ /\ ev.type \in {"step_completed", "step_failed"}
       /\ ev.duration = NotNumeric
       /\ FirstMatch(rec.steps, Lower(ev.step), {"running", "pending"}) # 0

\* events.unsubscribe: the consumer's queue leaves the bus
unsubscribe(b, c) == [x \in DOMAIN b \ {c} |-> b[x]]

\* events.publish: the event goes to the queue of every current subscriber
publish(b, ev) == [c \in DOMAIN b |-> Append(b[c], ev)]

----------------------------------------------------------------------------
(* Operations *)

ConsumerTask(r) == [task |-> "consumer", run |-> r]
RunnerTask(r) == [task |-> "runner", run |-> r]

\* the tasks start_run creates, in creation order
NewTasks(r) == <<ConsumerTask(r), RunnerTask(r)>>

LoggerLevels(lg) == [root |-> lg.root, levels |-> lg.levels]

\* RunManager.start_run for a configuration whose step list is names
start_run(names, limit) ==
    LET id == Cardinality(DOMAIN runs) + 1
        record == RunRecord(id, names)
        st == _broadcast_run_state_local([subs |-> runStateSubs, sq |-> stateQueues], record)
    IN  /\ loop = NoRun
        /\ Cardinality(DOMAIN runs) < limit
        /\ runs' = runs @@ (id :> record)
        /\ disk' = disk @@ (id :> [state |-> StatePayload(record), log |-> <<>>])
        /\ runStateSubs' = st.subs
        /\ stateQueues' = st.sq
        /\ ready' = ready \o NewTasks(id)
        /\ cpc' = cpc @@ (id :> "created")
        /\ rpc' = rpc @@ (id :> "created")
        /\ frame' = frame @@ (id :> [previous_level |-> NOTSET,
                                     previous_levels |-> [n \in noisy_loggers |-> NOTSET],
                                     outcome |-> "none"])
        /\ marker' = marker @@ (id :> NoRun)
        /\ published' = published @@ (id :> <<>>)
        /\ emitted' = emitted @@ (id :> 0)
        /\ UNCHANGED <<logQueues, subHist, bus, loop, logging, origLevels, now,
          caller, remote, flow, wait>>

\* _consume_events up to its first await: q = events.subscribe()
consumer_subscribe(r) ==
    /\ loop = NoRun
    /\ ready # <<>> /\ Head(ready) = ConsumerTask(r)
    /\ ready' = Tail(ready)
    /\ cpc' = [cpc EXCEPT ![r] = "waiting"]
    /\ bus' = bus @@ (r :> <<>>)
    /\ UNCHANGED <<runs, disk, runStateSubs, stateQueues, logQueues, subHist, rpc, loop,
                   frame, logging, marker, published, emitted, origLevels, now,
          caller, remote, flow, wait>>

\* one iteration of the loop of _consume_events; q.get() suspends only on an empty
\* queue, so the consumer keeps the event loop until its queue is drained. An
\* exception in the if/elif chain leaves the loop before persist_state and the
\* broadcast, runs the finally clause and ends the task
consume_event(r) ==
    LET ev == Head(bus[r])
        mine == Accepts(ev, r)
        rec == IF mine THEN ApplyEvent(runs[r], ev, now) ELSE runs[r]
        raised == mine /\ Raises(runs[r], ev)
        saved == mine /\ ~raised
        st == _broadcast_run_state_local([subs |-> runStateSubs, sq |-> stateQueues], rec)
    IN  /\ r \in DOMAIN bus
        /\ loop \in {NoRun, r}
        /\ bus[r] # <<>>
        /\ bus' = IF raised THEN unsubscribe(bus, r) ELSE [bus EXCEPT ![r] = Tail(@)]
        /\ loop' = IF raised \/ Tail(bus[r]) = <<>> THEN NoRun ELSE r
        /\ cpc' = IF raised THEN [cpc EXCEPT ![r] = "ended"] ELSE cpc
        /\ runs' = [runs EXCEPT ![r] = rec]
        /\ disk' = IF saved THEN [disk EXCEPT ![r].state = StatePayload(rec)] ELSE disk
        /\ runStateSubs' = IF saved THEN st.subs ELSE runStateSubs
        /\ stateQueues' = IF saved THEN st.sq ELSE stateQueues
        /\ UNCHANGED <<logQueues, subHist, ready, rpc, frame, logging, marker,
                       published, emitted, origLevels, now,
          caller, remote, flow, wait>>

\* _run up to the await of run_test: bridge attached, levels saved and lowered,
\* CURRENT_RUN_ID set
runner_start(r) ==
    /\ loop = NoRun
    /\ ready # <<>> /\ Head(ready) = RunnerTask(r)
    /\ ready' = Tail(ready)
    /\ rpc' = [rpc EXCEPT ![r] = "executing"]
    /\ frame' = [frame EXCEPT ![r] = [previous_level |-> logging.root,
                                      previous_levels |-> logging.levels,
                                      outcome |-> "none"]]
    /\ logging' = [root |-> INFO,
                   handlers |-> logging.handlers \cup {r},
                   levels |-> [n \in noisy_loggers |-> WARNING]]
    /\ marker' = [marker EXCEPT ![r] = r]
    /\ UNCHANGED <<runs, disk, runStateSubs, stateQueues, logQueues, subHist, bus, cpc,
                   loop, published, emitted, origLevels, now,
          caller, remote, flow, wait>>

\* the executor (run_test) publishes a lifecycle event tagged with its run id
exec_publish(r, ev, limit) ==
    /\ loop = NoRun
    /\ rpc[r] = "executing"
    /\ Len(published[r]) < limit
    /\ ev.run_id = r
    /\ bus' = publish(bus, ev)
    /\ published' = [published EXCEPT ![r] = Append(@, ev)]
    /\ UNCHANGED <<runs, disk, runStateSubs, stateQueues, logQueues, subHist, ready, cpc,
                   rpc, loop, frame, logging, marker, emitted, origLevels, now,
          caller, remote, flow, wait>>

\* code running under run_test (in the runner task's context) calls a logger
exec_log(r, level, name) ==
    LET record == [level |-> level, logger |-> name, n |-> emitted[r] + 1]
        w == Dispatch(World, logging, marker[r], record)
    IN  /\ loop = NoRun
        /\ rpc[r] = "executing"
        /\ emitted[r] < MaxRecords
        /\ emitted' = [emitted EXCEPT ![r] = @ + 1]
        /\ runs' = w.runs
        /\ disk' = w.disk
        /\ logQueues' = w.lq
        /\ subHist' = w.gh
        /\ UNCHANGED <<runStateSubs, stateQueues, bus, ready, cpc, rpc, loop, frame,
                       logging, marker, published, origLevels, now,
          caller, remote, flow, wait>>

Outcomes == {"true", "false", "raise"}

ErrorLine(r) == [kind |-> "error", ctx |-> r, text |-> "ERROR", n |-> 0]

FinishedLine(r, status) == [kind |-> "finished", ctx |-> r, text |-> status, n |-> 0]

\* AfterReturn without the guard on failed steps
AfterReturnUnguarded(w, r, ok) ==
    [w EXCEPT !.runs[r].status = IF ok = "true" THEN "passed" ELSE "failed"]

\* the try body of _run after run_test returned ok (a string "true" / "false")
AfterReturn(w, r, ok) ==
    IF ~anyFailed(w.runs[r])
    THEN [w EXCEPT !.runs[r].status = IF ok = "true" THEN "passed" ELSE "failed"]
    ELSE w

\* the except branch of _run; CURRENT_RUN_ID was reset, so the logger call is made
\* under marker `current`
AfterRaise(w, lg, r, current) ==
    LET record == [level |-> ERROR, logger |-> "datamonkey.run_manager", n |-> 0]
        w1 == Dispatch(w, lg, current, record)
        w2 == WBroadcast(w1, r, ErrorLine(r))
    IN  [w2 EXCEPT !.runs[r].status = "failed"]

\* the logging part of the finally block of _run
RestoreLogging(lg, r, fr) ==
    [root |-> fr.previous_level,
     handlers |-> lg.handlers \ {r},
     levels |-> [n \in noisy_loggers |-> fr.previous_levels[n]]]

\* the rest of the finally block with "if not record.ended_at" as its test
FinalizeFalsy(w, r, t) ==
    LET w1 == IF ~Truthy(w.runs[r].ended_at) THEN [w EXCEPT !.runs[r].ended_at = t] ELSE w
        w2 == WBroadcast(w1, r, FinishedLine(r, w1.runs[r].status))
    IN  WPersist(w2, r)

\* the rest of the finally block: ended_at, the status line, persist_state
Finalize(w, r, t) ==
    LET w1 == IF w.runs[r].ended_at = None THEN [w EXCEPT !.runs[r].ended_at = t] ELSE w
        w2 == WBroadcast(w1, r, FinishedLine(r, w1.runs[r].status))
    IN  WPersist(w2, r)

\* _run from the moment run_test returns or raises to the end of the task
runner_finish(r, outcome) ==
    LET current == NoRun
        w1 == IF outcome = "raise"
              THEN AfterRaise(World, logging, r, current)
              ELSE AfterReturn(World, r, outcome)
        w == Finalize(w1, r, now)
    IN  /\ loop = NoRun
        /\ rpc[r] = "executing"
        /\ rpc' = [rpc EXCEPT ![r] = "done"]
        /\ marker' = [marker EXCEPT ![r] = current]
        /\ frame' = [frame EXCEPT ![r].outcome = outcome]
        /\ logging' = RestoreLogging(logging, r, frame[r])
        /\ runs' = w.runs
        /\ disk' = w.disk
        /\ logQueues' = w.lq
        /\ subHist' = w.gh
        /\ UNCHANGED <<runStateSubs, stateQueues, bus, ready, cpc, loop, published,
                       emitted, origLevels, now,
          caller, remote, flow, wait>>

\* run.logs[:n], the first n lines instead of the last
FirstLines(logs, n) ==
    IF Len(logs) <= n THEN logs ELSE SubSeq(logs, 1, n)

\* run.logs[-n:]
LastLines(logs, n) ==
    IF Len(logs) <= n THEN logs ELSE SubSeq(logs, Len(logs) - n + 1, Len(logs))

\* the replay loop of subscribe: put_nowait line by line, break at the first failure
RECURSIVE Replay(_, _)
Replay(q, lines) ==
    IF lines = <<>> \/ full(q) THEN q ELSE Replay(put_nowait(q, Head(lines)), Tail(lines))

\* anything published on the shared bus while run r executes, addressed to r or not
bus_publish(r, ev, limit) ==
    /\ loop = NoRun
    /\ rpc[r] = "executing"
    /\ Len(published[r]) < limit
    /\ bus' = publish(bus, ev)
    /\ published' = [published EXCEPT ![r] = Append(@, ev)]
    /\ UNCHANGED <<runs, disk, runStateSubs, stateQueues, logQueues, subHist, ready, cpc,
                   rpc, loop, frame, logging, marker, emitted, origLevels, now, caller, remote, flow, wait>>

\* RunManager.subscribe(run_id) for a run in the table
subscribe(r, limit) ==
    LET qid == Cardinality(DOMAIN logQueues) + 1
        q == Replay([run |-> r, put |-> <<>>, taken |-> 0],
                    LastLines(runs[r].logs, ReplayWindow))
    IN  /\ loop = NoRun
        /\ r \in DOMAIN runs
        /\ qid <= limit
        /\ runs' = [runs EXCEPT ![r].subscribers = @ \cup {qid}]
        /\ logQueues' = logQueues @@ (qid :> q)
        /\ subHist' = subHist @@ (qid :> [at |-> Len(runs[r].logs), cut |-> None])
        /\ UNCHANGED <<disk, runStateSubs, stateQueues, bus, ready, cpc, rpc, loop, frame,
                       logging, marker, published, emitted, origLevels, now,
          caller, remote, flow, wait>>

\* RunManager.subscribe_runs()
subscribe_runs ==
    LET qid == Cardinality(DOMAIN stateQueues) + 1
    IN  /\ loop = NoRun
        /\ qid <= MaxQueues
        /\ runStateSubs' = runStateSubs \cup {qid}
        /\ stateQueues' = stateQueues @@ (qid :> [put |-> <<>>, taken |-> 0])
        /\ UNCHANGED <<runs, disk, logQueues, subHist, bus, ready, cpc, rpc, loop, frame,
                       logging, marker, published, emitted, origLevels, now,
          caller, remote, flow, wait>>

\* RunManager.unsubscribe_runs(q)
unsubscribe_runs(q) ==
    /\ loop = NoRun
    /\ q \in runStateSubs
    /\ runStateSubs' = runStateSubs \ {q}
    /\ UNCHANGED <<runs, disk, stateQueues, logQueues, subHist, bus, ready, cpc, rpc, loop,
                   frame, logging, marker, published, emitted, origLevels, now,
          caller, remote, flow, wait>>

\* the owner of a log queue takes one line (q.get())
take_line(q) ==
    /\ loop = NoRun
    /\ q \in DOMAIN logQueues
    /\ qsize(logQueues[q]) > 0
    /\ logQueues[q].taken < MaxTakes
    /\ logQueues' = [logQueues EXCEPT ![q].taken = @ + 1]
    /\ UNCHANGED <<runs, disk, runStateSubs, stateQueues, subHist, bus, ready, cpc, rpc,
                   loop, frame, logging, marker, published, emitted, origLevels, now,
          caller, remote, flow, wait>>

\* the owner of a run-state queue takes one snapshot (q.get())
take_state(q) ==
    /\ loop = NoRun
    /\ q \in DOMAIN stateQueues
    /\ qsize(stateQueues[q]) > 0
    /\ stateQueues[q].taken < MaxTakes
    /\ stateQueues' = [stateQueues EXCEPT ![q].taken = @ + 1]
    /\ UNCHANGED <<runs, disk, runStateSubs, logQueues, subHist, bus, ready, cpc, rpc,
                   loop, frame, logging, marker, published, emitted, origLevels, now,
          caller, remote, flow, wait>>

\* nothing has been called yet
NoCall == [op |-> "none", arg |-> NoRun, result |-> "none"]

\* an exception, or none: the type raised and the index of the step it left
NoError == [type |-> "none", step |-> 0]

\* no TestFlow has been created yet
NoFlow ==
    [pc |-> "none", steps |-> <<>>, i |-> 1, executed |-> <<>>, cleanups |-> <<>>,
     error |-> NoError, raised |-> NoError]

\* SyncStep._wait_for_sync_completion has not been called yet
NoWait == [pc |-> "none", polls |-> <<>>, slept |-> 0, warnings |-> 0, raised |-> "none"]

----------------------------------------------------------------------------
(* Initial state: a fresh RunManager in a process whose root logger has level root *)

InitWith(root) ==
    /\ runs = <<>>
    /\ disk = <<>>
    /\ runStateSubs = {}
    /\ stateQueues = <<>>
    /\ logQueues = <<>>
    /\ subHist = <<>>
    /\ bus = <<>>
    /\ ready = <<>>
    /\ cpc = <<>>
    /\ rpc = <<>>
    /\ loop = NoRun
    /\ frame = <<>>
    /\ logging = [root |-> root, handlers |-> {}, levels |-> [n \in noisy_loggers |-> NOTSET]]
    /\ marker = <<>>
    /\ published = <<>>
    /\ emitted = <<>>
    /\ origLevels = [root |-> root, levels |-> [n \in noisy_loggers |-> NOTSET]]
    /\ now = 1
    /\ caller = NoCall
    /\ remote = [push |-> 0, persist |-> 0]
    /\ flow = NoFlow
    /\ wait = NoWait

Runs == DOMAIN runs

----------------------------------------------------------------------------
(* Spec: one run, its lifecycle events, the consumer and the runner *)

\* step lists of the configurations in use
Configs == {<<"sync">>, <<"Create", "sync">>}

\* the events an executor may publish for run r over these step names
LifecycleEvents(r, names) ==
    {Event(t, r, "", now, None) : t \in FlowTypes}
      \cup {Event(t, r, n, now, None) : t \in StepTypes, n \in names}

StepNamesOf(r) == {runs[r].steps[i].name : i \in 1..Len(runs[r].steps)}

Init == InitWith(WARNING)

Next ==
    \/ \E names \in Configs : start_run(names, 1)
    \/ \E r \in Runs : consumer_subscribe(r)
    \/ \E r \in Runs : runner_start(r)
    \/ \E r \in Runs : \E ev \in LifecycleEvents(r, StepNamesOf(r)) :
            exec_publish(r, ev, MaxEvents)
    \/ \E r \in Runs : consume_event(r)
    \/ \E r \in Runs : \E o \in Outcomes : runner_finish(r, o)

Spec == Init /\ [][Next]_vars

----------------------------------------------------------------------------
(* Claims on the lifecycle of one run (Spec) *)

\* the runner task of r has ended
RunnerDone(r) == rpc[r] = "done"

\* the consumer of r has applied every event published so far
Drained(r) == r \in DOMAIN bus /\ bus[r] = <<>>

\* the verdict derived from the steps
Derived(rec) == IF anyFailed(rec) THEN "failed" ELSE "passed"

\* C1: once the runner task of a run has finished, the run's status is passed or
\* failed, at that moment and ever after (never queued, never running again).
C1_FinishedRunIsTerminal ==
    \A r \in Runs : RunnerDone(r) => runs[r].status \in Terminal

EndedByFlowEvent(r) ==
    /\ published[r] # <<>>
    /\ published[r][Len(published[r])].type \in {"flow_completed", "flow_failed"}

C4_StatusTransitions ==
    [][\A r \in Runs :
          runs'[r].status # runs[r].status
              => <<runs[r].status, runs'[r].status>> \in
                    {<<"queued", "running">>, <<"running", "passed">>,
                     <<"running", "failed">>}]_vars

\* position of the first line of this kind in a log, 0 if there is none
FirstLine(logs, kind) ==
    LET idx == {i \in 1..Len(logs) : logs[i].kind = kind}
    IN  IF idx = {} THEN 0 ELSE CHOOSE i \in idx : \A j \in idx : i <= j

\* C5: when the executor raises, the runner task still ends, an ERROR line is in the
\* run's log before the final status line, and once every published event has been
\* applied the run's status is failed.
C5_RaiseEndsFailed ==
    \A r \in Runs :
        RunnerDone(r) /\ frame[r].outcome = "raise"
            => /\ FirstLine(runs[r].logs, "error") > 0
               /\ FirstLine(runs[r].logs, "error") < FirstLine(runs[r].logs, "finished")
               /\ (Drained(r) => runs[r].status = "failed")

\* the consumer of r applies, in this step, an event of one of these types
Applies(r, types) ==
    /\ r \in DOMAIN bus /\ bus[r] # <<>>
    /\ r \in DOMAIN bus' /\ bus'[r] = Tail(bus[r])
    /\ Head(bus[r]).run_id = r
    /\ Head(bus[r]).type \in types

\* C16: immediately after the event consumer applies a flow_completed or a
\* flow_failed event for a run, the run's status is failed if any step is failed and
\* passed otherwise, whichever of the two event types was received.
C16_FlowEndDerivesVerdict ==
    [][\A r \in Runs :
          Applies(r, {"flow_completed", "flow_failed"})
              => runs'[r].status = IF anyFailed(runs'[r]) THEN "failed" ELSE "passed"]_vars

\* C16's case: steps passed and failed, then a flow_completed, applied while the
\* executor is still running: the status is failed
C16_Witness ==
    \E r \in Runs :
        /\ rpc[r] = "executing" /\ Drained(r)
        /\ Len(runs[r].steps) = 2
        /\ runs[r].steps[1].status = "passed" /\ runs[r].steps[2].status = "failed"
        /\ Last(published[r]).type = "flow_completed"
        /\ runs[r].status = "failed"

----------------------------------------------------------------------------
(* SpecPair: two runs of the same configuration, to compare interleavings *)

NextPair ==
    \/ start_run(<<"sync">>, MaxRuns)
    \/ \E r \in Runs : consumer_subscribe(r)
    \/ \E r \in Runs : runner_start(r)
    \/ \E r \in Runs : \E ev \in LifecycleEvents(r, StepNamesOf(r)) :
            exec_publish(r, ev, MaxPairEvents)
    \/ \E r \in Runs : consume_event(r)
    \/ \E r \in Runs : \E o \in Outcomes : runner_finish(r, o)

SpecPair == Init /\ [][NextPair]_vars

\* what the executor of r did, without the run id: the events it published, in
\* order, and how it ended
Behaviour(r) ==
    [events |-> [i \in 1..Len(published[r]) |->
                    [type |-> published[r][i].type, step |-> published[r][i].step,
                     ts |-> published[r][i].ts, duration |-> published[r][i].duration]],
     outcome |-> frame[r].outcome]

\* C3: two runs of the same flow whose executors behaved the same (same events,
\* ending with flow_completed or flow_failed, and the same return value or exception)
\* end with the same status once both runners have finished and both consumers have
\* applied every event, whichever of the consumer's and the runner's finalization
\* came last in each.
C3_StatusConverges ==
    \A a, b \in Runs :
        /\ RunnerDone(a) /\ RunnerDone(b)
        /\ bus[a] = <<>> /\ bus[b] = <<>>
        /\ EndedByFlowEvent(a)
        /\ Behaviour(a) = Behaviour(b)
        => runs[a].status = runs[b].status

----------------------------------------------------------------------------
(* SpecLogging: two overlapping runs share the root logger *)

\* levels the process may have given the root logger before the first run
RootLevels == {WARNING, DEBUG}

\* levels and loggers of the calls made under run_test
RecordLevels == {DEBUG, INFO}
LoggerNames == {"datamonkey", "httpx"}

InitLogging == \E root \in RootLevels : InitWith(root)

NextLogging ==
    \/ start_run(<<"sync">>, 2)
    \/ \E r \in Runs : consumer_subscribe(r)
    \/ \E r \in Runs : runner_start(r)
    \/ \E r \in Runs : \E level \in RecordLevels : \E name \in LoggerNames :
            exec_log(r, level, name)
    \/ \E r \in Runs : \E o \in Outcomes : runner_finish(r, o)
    \/ \E r \in Runs : subscribe(r, 1)

SpecLogging == InitLogging /\ [][NextLogging]_vars

\* every line of a sequence that came from a log record was emitted under marker r
OnlyFrom(lines, r) ==
    \A i \in 1..Len(lines) : lines[i].kind = "record" => lines[i].ctx = r

\* C7: a log record emitted while run A's marker is current reaches only A's
\* in-memory log, A's log file and the queues of A's subscribers, never another
\* run's.
C7_NoCrossTalk ==
    /\ \A r \in Runs : OnlyFrom(runs[r].logs, r) /\ OnlyFrom(disk[r].log, r)
    /\ \A q \in DOMAIN logQueues : OnlyFrom(logQueues[q].put, logQueues[q].run)

HasRecord(lines) == \E i \in 1..Len(lines) : lines[i].kind = "record"

\* C7's case: two runs whose bridges were attached together, each with a record in
\* its log, one of them delivered to a subscriber
C7_Witness ==
    \E a, b \in Runs :
        /\ a # b
        /\ a \in logging.handlers /\ b \in logging.handlers
        /\ HasRecord(runs[a].logs) /\ HasRecord(runs[b].logs)
        /\ \E q \in DOMAIN logQueues : logQueues[q].run = a /\ HasRecord(logQueues[q].put)

\* C8: after every runner task has finished, the root logger and each suppressed
\* logger have the level they had before the first run started.
C8_LevelsRestored ==
    (Runs # {} /\ \A r \in Runs : RunnerDone(r)) => LoggerLevels(logging) = origLevels

----------------------------------------------------------------------------
(* Fan-out specifications: one run with log subscribers and run-state subscribers *)

FanoutEvents(r) ==
    {Event("flow_started", r, "", now, None), Event("step_completed", r, "sync", now, None)}

\* log side: subscribers of the run's log, taking lines as they please
NextLogFanout ==
    \/ start_run(<<"sync">>, 1)
    \/ \E r \in Runs : consumer_subscribe(r)
    \/ \E r \in Runs : runner_start(r)
    \/ \E r \in Runs : exec_log(r, INFO, "datamonkey")
    \/ \E r \in Runs : \E o \in Outcomes : runner_finish(r, o)
    \/ \E r \in Runs : subscribe(r, MaxQueues)
    \/ \E q \in DOMAIN logQueues : take_line(q)

SpecLogFanout == Init /\ [][NextLogFanout]_vars

\* run-state side: subscribers of the run-state stream, coming, taking and going
NextStateFanout ==
    \/ start_run(<<"sync">>, 1)
    \/ \E r \in Runs : consumer_subscribe(r)
    \/ \E r \in Runs : runner_start(r)
    \/ \E r \in Runs : \E ev \in FanoutEvents(r) : exec_publish(r, ev, MaxFanoutEvents)
    \/ \E r \in Runs : consume_event(r)
    \/ \E r \in Runs : \E o \in Outcomes : runner_finish(r, o)
    \/ subscribe_runs
    \/ \E q \in runStateSubs : unsubscribe_runs(q)
    \/ \E q \in DOMAIN stateQueues : take_state(q)

SpecStateFanout == Init /\ [][NextStateFanout]_vars

\* both sides at once, with subscribers that do not take: queues only fill
NextFanout ==
    \/ start_run(<<"sync">>, 1)
    \/ \E r \in Runs : consumer_subscribe(r)
    \/ \E r \in Runs : runner_start(r)
    \/ \E r \in Runs : \E ev \in FanoutEvents(r) : exec_publish(r, ev, MaxFanoutEvents)
    \/ \E r \in Runs : consume_event(r)
    \/ \E r \in Runs : exec_log(r, INFO, "datamonkey")
    \/ \E r \in Runs : \E o \in Outcomes : runner_finish(r, o)
    \/ \E r \in Runs : subscribe(r, MaxQueues)
    \/ subscribe_runs

SpecFanout == Init /\ [][NextFanout]_vars

----------------------------------------------------------------------------
(* Claims on the fan-out *)

\* C6: whenever the status, progress, started_at or ended_at of a run changes, by
\* the consumer or by the runner, every registered run-state subscriber whose queue
\* is not full receives a snapshot carrying the new values.
C6_EveryChangeIsBroadcast ==
    [][\A r \in Runs :
          Snapshot(runs'[r]) # Snapshot(runs[r])
              => \A q \in runStateSubs :
                    ~full(stateQueues[q])
                        => /\ Len(stateQueues'[q].put) > Len(stateQueues[q].put)
                           /\ Last(stateQueues'[q].put) = Snapshot(runs'[r])]_vars

\* the slice of a run's log that follows the first `from` lines, up to line `to`
Slice(logs, from, to) == SubSeq(logs, from + 1, to)

\* where the replay window of a subscription made at log length n starts
WindowStart(n) == IF n > ReplayWindow THEN n - ReplayWindow ELSE 0

\* C9 as stated: the queue returned by subscribe on a log of n lines holds the last
\* min(n, window) lines of that moment, then every line broadcast since, in order.
C9_ReplayThenEveryLine ==
    \A q \in DOMAIN logQueues :
        logQueues[q].put =
            Slice(runs[logQueues[q].run].logs, WindowStart(subHist[q].at),
                  Len(runs[logQueues[q].run].logs))

\* C9 amended: the queue returned by subscribe on a log of n lines holds the last
\* min(n, window) lines of that moment, then every line broadcast since, in order and
\* once each, up to the first broadcast that found the queue full; from that
\* broadcast on it receives nothing.
C9_ReplayThenLinesUntilFull ==
    \A q \in DOMAIN logQueues :
        LET logs == runs[logQueues[q].run].logs
            upto == IF subHist[q].cut = None THEN Len(logs) ELSE subHist[q].cut
        IN  /\ logQueues[q].put = Slice(logs, WindowStart(subHist[q].at), upto)
            /\ (subHist[q].cut = None <=> q \in runs[logQueues[q].run].subscribers)

\* C9's case: a subscription made when the log was longer than the window, with a
\* line broadcast after it
C9_Witness ==
    \E q \in DOMAIN logQueues :
        /\ subHist[q].at > ReplayWindow
        /\ Len(runs[logQueues[q].run].logs) > subHist[q].at
        /\ Len(logQueues[q].put) = ReplayWindow + 1

\* the lines a step appended to run r's log
NewLines(r) == SubSeq(runs'[r].logs, Len(runs[r].logs) + 1, Len(runs'[r].logs))

\* the first n elements of a sequence
Prefix(seq, n) == IF n >= Len(seq) THEN seq ELSE SubSeq(seq, 1, n)

\* free places of a queue
Room(q) == IF full(q) THEN 0 ELSE QueueMaxSize - qsize(q)

\* one step's effect on the log of run r: every new line is in the log and in the
\* log file; a subscriber gets the new lines while it has room, stays registered
\* iff all of them fitted, and a queue that is not registered gets nothing
LogFanoutStep(r) ==
    /\ runs'[r].logs = runs[r].logs \o NewLines(r)
    /\ disk'[r].log = disk[r].log \o NewLines(r)
    /\ \A q \in DOMAIN logQueues :
          logQueues[q].run = r =>
              IF q \in runs[r].subscribers
              THEN /\ logQueues'[q].put =
                          logQueues[q].put \o Prefix(NewLines(r), Room(logQueues[q]))
                   /\ (q \in runs'[r].subscribers
                          <=> Len(NewLines(r)) <= Room(logQueues[q]))
              ELSE /\ logQueues'[q].put = logQueues[q].put
                   /\ q \notin runs'[r].subscribers

\* one step's effect on the run-state queues: a queue that is not registered gets
\* nothing; when a snapshot is delivered, every registered queue with room gets it
\* and stays registered, and every full one is removed and gets nothing
StateFanoutStep ==
    /\ \A q \in DOMAIN stateQueues \ runStateSubs :
          stateQueues'[q].put = stateQueues[q].put /\ q \notin runStateSubs'
    /\ \A p \in DOMAIN stateQueues :
          stateQueues'[p].put # stateQueues[p].put
              => \A q \in runStateSubs :
                    IF full(stateQueues[q])
                    THEN /\ q \notin runStateSubs'
                         /\ stateQueues'[q].put = stateQueues[q].put
                    ELSE /\ q \in runStateSubs'
                         /\ stateQueues'[q].put =
                                Append(stateQueues[q].put, Last(stateQueues'[p].put))

\* C10: a broadcast of a log line or of a run state does not wait for a subscriber:
\* a subscriber whose queue is full is removed and gets no later message, while the
\* line is appended to the log, persisted, and delivered to every other subscriber
\* whose queue has room.
C10_FullSubscriberIsDropped ==
    [][(\A r \in Runs : LogFanoutStep(r)) /\ StateFanoutStep]_vars

\* C10's case: of two log subscribers one was removed on a full queue while the
\* other got the line, and likewise of two run-state subscribers
C10_Witness ==
    /\ \E r \in Runs : \E q1, q2 \in DOMAIN logQueues :
          /\ q1 \notin runs[r].subscribers /\ q2 \in runs[r].subscribers
          /\ logQueues[q1].run = r /\ logQueues[q2].run = r
          /\ Last(logQueues[q2].put) = Last(runs[r].logs)
          /\ Last(logQueues[q1].put) # Last(runs[r].logs)
    /\ \E q1, q2 \in DOMAIN stateQueues :
          /\ q1 \notin runStateSubs /\ q2 \in runStateSubs
          /\ Len(stateQueues[q1].put) = QueueMaxSize
          /\ stateQueues[q2].put # <<>>
          /\ Last(stateQueues[q2].put) # Last(stateQueues[q1].put)

----------------------------------------------------------------------------
(* SpecSteps: the step state machine under events that carry their own timestamps *)
(* and durations, while the executor is running                                   *)

\* events one executor may publish when timestamps and durations vary
MaxStepEvents == 3

\* the ts of a start event: absent, 0.0, or a time after the receive time
Stamps == {None, 0, 2}

\* the ts of an end event: absent or a time after the receive time
EndStamps == {None, 2}

\* the duration of a step_completed / step_failed event: absent or explicit
Durations == {None, 5}

\* step lists: no step, one step, the same step name twice
StepConfigs == {<<>>, <<"Sync">>, <<"Sync", "sync">>}

\* the events an executor may publish for run r over these step names
StepEvents(r, names) ==
    {Event(t, r, "", None, None) : t \in FlowTypes}
      \cup {Event("step_started", r, n, ts, None) : n \in names, ts \in Stamps}
      \cup {Event(t, r, n, ts, d) :
                t \in {"step_completed", "step_failed"}, n \in names,
                ts \in EndStamps, d \in Durations}

NextSteps ==
    \/ \E names \in StepConfigs : start_run(names, 1)
    \/ \E r \in Runs : consumer_subscribe(r)
    \/ \E r \in Runs : runner_start(r)
    \/ \E r \in Runs : \E ev \in StepEvents(r, StepNamesOf(r)) :
            exec_publish(r, ev, MaxStepEvents)
    \/ \E r \in Runs : consume_event(r)

SpecSteps == Init /\ [][NextSteps]_vars

----------------------------------------------------------------------------
(* Claims on the step state machine (SpecSteps) *)

\* the steps of run r, by position
StepsOf(r) == 1..Len(runs[r].steps)

\* C11: once a step is passed or failed, no later event of any type (a repeated
\* step_completed or step_failed for the same name, a step_started, a flow event)
\* changes that step's status, started_at, ended_at or duration.
C11_TerminalStepIsFrozen ==
    [][\A r \in Runs : \A i \in StepsOf(r) :
          runs[r].steps[i].status \in Terminal
              => runs'[r].steps[i] = runs[r].steps[i]]_vars

\* C11's case: the only step was completed with its own timestamp and duration, and
\* a step_failed and a step_started for the same name were applied afterwards
C11_Witness ==
    \E r \in Runs :
        /\ Len(runs[r].steps) = 1 /\ Drained(r) /\ Len(published[r]) = 3
        /\ published[r][1] = Event("step_completed", r, "sync", 2, 5)
        /\ published[r][2] = Event("step_failed", r, "sync", None, None)
        /\ published[r][3] = Event("step_started", r, "sync", 0, None)
        /\ runs[r].steps[1] =
              [name |-> "sync", index |-> 0, status |-> "passed",
               started_at |-> None, ended_at |-> 2, duration |-> 5]

\* the status changes of the steps are all among these pairs
StepChangesWithin(allowed) ==
    \A r \in Runs : \A i \in StepsOf(r) :
        runs'[r].steps[i].status # runs[r].steps[i].status
            => <<runs[r].steps[i].status, runs'[r].steps[i].status>> \in allowed

\* C12 as stated: every change of a step's status is pending->running,
\* running->passed or running->failed; no step becomes passed or failed without
\* first having been running.
C12_StepTransitions ==
    [][StepChangesWithin({<<"pending", "running">>, <<"running", "passed">>,
                          <<"running", "failed">>})]_vars

\* C12 amended: every change of a step's status is pending->running,
\* running->passed, running->failed, pending->passed or pending->failed: a step whose
\* completion or failure is reported without a start goes from pending to its
\* terminal status directly.
C12_StepTransitionsWithSkip ==
    [][StepChangesWithin({<<"pending", "running">>, <<"running", "passed">>,
                          <<"running", "failed">>, <<"pending", "passed">>,
                          <<"pending", "failed">>})]_vars

\* C12's case: of two steps one finished without ever having been running, the
\* other after a recorded start
C12_Witness ==
    \E r \in Runs : \E i, j \in StepsOf(r) :
        /\ runs[r].steps[i].status = "passed" /\ runs[r].steps[i].started_at = None
        /\ runs[r].steps[j].status = "failed" /\ runs[r].steps[j].started_at # None

\* a progress value lies in [0, 1]
InUnit(p) == p[2] > 0 /\ 0 <= p[1] /\ p[1] <= p[2]

\* p <= q for two progress values
AtMost(p, q) == p[1] * q[2] <= q[1] * p[2]

\* C13: for every run and every sequence of events, progress() is in [0, 1] and
\* never decreases from one state to the next.
C13_ProgressMonotone ==
    [][\A r \in DOMAIN runs' :
          /\ InUnit(progress(runs'[r]))
          /\ r \in Runs => AtMost(progress(runs[r]), progress(runs'[r]))]_vars

\* C13's case: a run of two steps that is half done after three events, one of them
\* a start
C13_Witness ==
    \E r \in Runs :
        /\ progress(runs[r]) = <<1, 2>>
        /\ Drained(r) /\ Len(published[r]) = MaxStepEvents
        /\ \E i \in StepsOf(r) : runs[r].steps[i].status = "running"

\* every step of the record is passed or failed
AllTerminal(rec) == \A i \in 1..Len(rec.steps) : rec.steps[i].status \in Terminal

\* a progress value equal to 1.0
Complete(p) == p[1] = p[2]

\* C14 as stated: for every run, a run of a flow with zero steps included,
\* progress() is 1.0 in every state in which all of its steps are passed or failed.
C14_AllTerminalIsComplete ==
    \A r \in Runs : AllTerminal(runs[r]) => Complete(progress(runs[r]))

\* C14 amended: for every run with at least one step, progress() is 1.0 in every
\* state in which all of its steps are passed or failed; for a run with zero steps
\* progress() is 0.0 in every state.
C14_AllTerminalIsCompleteOrEmpty ==
    \A r \in Runs :
        IF Len(runs[r].steps) = 0
        THEN progress(runs[r]) = <<0, 1>>
        ELSE AllTerminal(runs[r]) => Complete(progress(runs[r]))

\* C14's case: a run of two steps, one passed and one failed
C14_Witness ==
    \E r \in Runs :
        /\ Len(runs[r].steps) = 2
        /\ runs[r].steps[1].status = "passed" /\ runs[r].steps[2].status = "failed"
        /\ Complete(progress(runs[r]))

\* C18: when a step_completed or step_failed event is applied to a step, the step's
\* duration is the event's duration if the event carries one; otherwise ended_at
\* minus started_at if a step_started was recorded for the step, for every recorded
\* start timestamp including 0; otherwise it stays None, and started_at is as it was.
C18_DurationOfFinishedStep ==
    [][\A r \in Runs :
          Applies(r, {"step_completed", "step_failed"})
              => \A i \in StepsOf(r) :
                    runs'[r].steps[i].status # runs[r].steps[i].status
                        => /\ runs'[r].steps[i].started_at = runs[r].steps[i].started_at
                           /\ runs'[r].steps[i].duration =
                                 IF Head(bus[r]).duration # None
                                 THEN Head(bus[r]).duration
                                 ELSE IF runs[r].steps[i].started_at # None
                                 THEN runs'[r].steps[i].ended_at - runs[r].steps[i].started_at
                                 ELSE None]_vars

----------------------------------------------------------------------------
(* SpecFlow: the flow-level events with their own timestamps, and the runner's end *)

\* the events an executor may publish for run r: flow events and one failing step
FlowEvents(r) ==
    {Event(t, r, "", ts, None) : t \in FlowTypes, ts \in Stamps}
      \cup {Event("step_failed", r, "sync", None, None)}

NextFlow ==
    \/ start_run(<<"sync">>, 1)
    \/ \E r \in Runs : consumer_subscribe(r)
    \/ \E r \in Runs : runner_start(r)
    \/ \E r \in Runs : \E ev \in FlowEvents(r) : exec_publish(r, ev, MaxStepEvents)
    \/ \E r \in Runs : consume_event(r)
    \/ \E r \in Runs : \E o \in Outcomes : runner_finish(r, o)

SpecFlow == Init /\ [][NextFlow]_vars

\* C17: a run's started_at is set by the first flow_started event applied for the
\* run, to that event's ts, and is not changed by any later flow_started event for
\* the same run.
C17_FirstFlowStartedWins ==
    [][\A r \in Runs :
          Applies(r, {"flow_started"})
              => runs'[r].started_at =
                    IF runs[r].started_at = None
                    THEN TsOf(Head(bus[r]), now)
                    ELSE runs[r].started_at]_vars

\* the runner task of r ends in this step
RunnerEnds(r) == rpc[r] = "executing" /\ rpc'[r] = "done"

\* how many lines of this kind a log holds
CountKind(lines, kind) == Cardinality({i \in 1..Len(lines) : lines[i].kind = kind})

\* C20: whatever the outcome of the executor (returns true, returns false, raises),
\* when the runner task ends the run's log bridge is no longer on the root logger,
\* ended_at is non-null, and unchanged if a flow_completed / flow_failed event had
\* already set it, the line 'Run finished with status: <status>' is the last line of
\* the log and the only such line ever broadcast, and what is persisted is the state
\* and the log as they are after that line.
C20_RunnerEndFinalizes ==
    [][/\ \A r \in Runs :
             RunnerEnds(r)
                 => /\ r \notin logging'.handlers
                    /\ runs'[r].ended_at # None
                    /\ runs[r].ended_at # None => runs'[r].ended_at = runs[r].ended_at
                    /\ Last(runs'[r].logs) = FinishedLine(r, runs'[r].status)
                    /\ disk'[r].state = StatePayload(runs'[r])
                    /\ disk'[r].log = runs'[r].logs
       /\ \A r \in DOMAIN runs' :
             CountKind(runs'[r].logs, "finished") = IF rpc'[r] = "done" THEN 1 ELSE 0]_vars

\* C20's case: the executor raised after a flow_failed with ts 0 had been applied:
\* the runner has ended, ended_at is still 0 and the status line closes the log
C20_Witness ==
    \E r \in Runs :
        /\ RunnerDone(r) /\ frame[r].outcome = "raise"
        /\ runs[r].ended_at = 0
        /\ \E i \in 1..Len(published[r]) : published[r][i] = Event("flow_failed", r, "", 0, None)
        /\ logging.handlers = {}
        /\ Last(runs[r].logs) = FinishedLine(r, runs[r].status)
        /\ disk[r].state.ended_at = 0

----------------------------------------------------------------------------
(* SpecStart: runs being created while run-state subscribers listen *)

\* runs a behaviour may start when only creation is observed (more than a
\* run-state queue holds)
MaxStarts == 3

\* step lists: no step, and two names of which one is capitalised
StartConfigs == {<<>>, <<"Create", "sync">>}

NextStart ==
    \/ \E names \in StartConfigs : start_run(names, MaxStarts)
    \/ \E r \in Runs : consumer_subscribe(r)
    \/ \E r \in Runs : runner_start(r)
    \/ subscribe_runs
    \/ \E q \in DOMAIN stateQueues : take_state(q)

SpecStart == Init /\ [][NextStart]_vars

\* the StepRecord a fresh run holds at position i (from 1) for the declared names
FreshStep(names, i) ==
    [name |-> Lower(names[i]), index |-> i - 1, status |-> "pending",
     started_at |-> None, ended_at |-> None, duration |-> None]

\* the record of a run just created from the declared names
IsFresh(rec, names) ==
    /\ rec.status = "queued"
    /\ progress(rec)[1] = 0
    /\ rec.started_at = None /\ rec.ended_at = None
    /\ rec.logs = <<>>
    /\ Len(rec.steps) = Len(names)
    /\ \A i \in 1..Len(names) : rec.steps[i] = FreshStep(names, i)

\* C15: for every list of N >= 0 step names, the record start_run creates has status
\* queued, progress 0.0, null started_at and ended_at, an empty log and exactly N
\* steps in declared order, each pending, with the lower-cased name and its position
\* as index; in the same step the record is in the run table, its snapshot is
\* persisted and put on the queue of every run-state subscriber that has room,
\* and neither of its two tasks has run yet.
C15_StartRunCreatesQueuedRecord ==
    [][\A id \in DOMAIN runs' \ Runs :
          /\ runs'[id].id = id
          /\ IsFresh(runs'[id], runs'[id].config_path)
          /\ disk'[id].state = StatePayload(runs'[id])
          /\ disk'[id].state.status = "queued" /\ disk'[id].state.steps = runs'[id].steps
          /\ \A q \in runStateSubs :
                ~full(stateQueues[q])
                    => stateQueues'[q].put = Append(stateQueues[q].put, Snapshot(runs'[id]))
          /\ cpc'[id] = "created" /\ rpc'[id] = "created"
          /\ ready' = ready \o <<ConsumerTask(id), RunnerTask(id)>>]_vars

\* C15's case: a second run was just created from the names Create, sync while a
\* run-state subscriber was listening, and none of its tasks has run
C15_Witness ==
    \E id \in Runs :
        /\ id > 1
        /\ runs[id].config_path = <<"Create", "sync">>
        /\ runs[id].steps[1].name = "create" /\ runs[id].steps[2].index = 1
        /\ cpc[id] = "created" /\ rpc[id] = "created"
        /\ \E q \in runStateSubs :
              /\ stateQueues[q].put # <<>>
              /\ Last(stateQueues[q].put) = Snapshot(runs[id])
              /\ Last(stateQueues[q].put).status = "queued"

----------------------------------------------------------------------------
(* SpecPersist: one run with events and log records, among them a completion event *)
(* whose duration is not a number                                                  *)

\* the events an executor may publish for run r
PersistEvents(r) ==
    {Event("flow_started", r, "", now, None), Event("step_started", r, "sync", now, None)}
      \cup {Event("step_completed", r, "sync", now, d) : d \in {None, NotNumeric}}

NextPersist ==
    \/ start_run(<<"sync">>, 1)
    \/ \E r \in Runs : consumer_subscribe(r)
    \/ \E r \in Runs : runner_start(r)
    \/ \E r \in Runs : \E ev \in PersistEvents(r) : exec_publish(r, ev, MaxFanoutEvents)
    \/ \E r \in Runs : consume_event(r)
    \/ \E r \in Runs : exec_log(r, INFO, "datamonkey")
    \/ \E r \in Runs : \E o \in Outcomes : runner_finish(r, o)

SpecPersist == Init /\ [][NextPersist]_vars

\* what run.json and logs.ndjson of r hold is what the record holds
Persisted(r) ==
    /\ disk[r].state.status = runs[r].status
    /\ disk[r].state.started_at = runs[r].started_at
    /\ disk[r].state.ended_at = runs[r].ended_at
    /\ disk[r].state.progress = progress(runs[r])
    /\ disk[r].state.steps = runs[r].steps
    /\ disk[r].log = runs[r].logs

\* C19: at every point where control can pass to another task, or where the process
\* can be killed between operations, the persisted snapshot of each run equals its
\* in-memory status, timestamps, progress and per-step fields, and the persisted log
\* file holds exactly the lines of the in-memory log in the same order.
C19_DiskMatchesMemory ==
    \A r \in Runs : Persisted(r)

----------------------------------------------------------------------------
(* Calls that fail or only look up: start_run on a configuration that does not
   load, get_run, and subscribe on an id that is not in the run table *)

\* TestStepFactory._steps: the names create_step accepts
KnownSteps ==
    {"create", "sync", "verify", "update", "partial_delete", "verify_partial_deletion",
     "verify_remaining_entities", "complete_delete", "verify_complete_deletion"}

\* the configuration files on disk: path -> the step names the file declares
Files ==
    [p \in {"flow.yaml", "bogus.yaml"} |->
        IF p = "flow.yaml" THEN <<"create", "sync">> ELSE <<"sync", "bogus">>]

Paths == DOMAIN Files \cup {"missing.yaml"}

\* TestConfig.from_file(config_path): the configuration, or a configuration error for a
\* path that cannot be read or a step list with a name that is no known step
from_file(path) ==
    IF path \notin DOMAIN Files
    THEN [ok |-> FALSE, steps |-> <<>>]
    ELSE [ok |-> \A i \in 1..Len(Files[path]) : Files[path][i] \in KnownSteps,
          steps |-> Files[path]]

Raised(op, arg) == [op |-> op, arg |-> arg, result |-> "raised"]

\* start_run with the record registered, persisted, broadcast and the tasks created before
\* the configuration is found not to load
start_run_unloaded(path, limit) ==
    LET cfg == from_file(path)
        id == Cardinality(DOMAIN runs) + 1
        record == RunRecord(id, cfg.steps)
        st == _broadcast_run_state_local([subs |-> runStateSubs, sq |-> stateQueues], record)
    IN  /\ loop = NoRun
        /\ Cardinality(DOMAIN runs) < limit
        /\ runs' = runs @@ (id :> record)
        /\ disk' = disk @@ (id :> [state |-> StatePayload(record), log |-> <<>>])
        /\ runStateSubs' = st.subs
        /\ stateQueues' = st.sq
        /\ ready' = ready \o NewTasks(id)
        /\ cpc' = cpc @@ (id :> "created")
        /\ rpc' = rpc @@ (id :> "created")
        /\ frame' = frame @@ (id :> [previous_level |-> NOTSET,
                                     previous_levels |-> [n \in noisy_loggers |-> NOTSET],
                                     outcome |-> "none"])
        /\ marker' = marker @@ (id :> NoRun)
        /\ published' = published @@ (id :> <<>>)
        /\ emitted' = emitted @@ (id :> 0)
        /\ caller' = IF cfg.ok THEN caller ELSE Raised("start_run", path)
        /\ UNCHANGED <<logQueues, subHist, bus, loop, logging, origLevels, now, remote, flow, wait>>

\* RunManager.start_run(config_path): cfg = TestConfig.from_file(config_path) is the first
\* statement, so a configuration error leaves start_run before anything is built
start_run_path(path, limit) ==
    LET cfg == from_file(path)
    IN  IF cfg.ok
        THEN start_run(cfg.steps, limit)
        ELSE /\ loop = NoRun
             /\ caller' = Raised("start_run", path)
             /\ UNCHANGED <<runs, disk, runStateSubs, stateQueues, logQueues, subHist, bus,
                            ready, cpc, rpc, loop, frame, logging, marker, published,
                            emitted, origLevels, now, remote, flow, wait>>

\* get_run written as self._runs[run_id]
get_run_indexed(id) ==
    /\ loop = NoRun
    /\ caller' = IF id \in DOMAIN runs
                 THEN [op |-> "get_run", arg |-> id, result |-> "record"]
                 ELSE Raised("get_run", id)
    /\ UNCHANGED <<runs, disk, runStateSubs, stateQueues, logQueues, subHist, bus, ready,
                   cpc, rpc, loop, frame, logging, marker, published, emitted, origLevels,
                   now, remote, flow, wait>>

\* RunManager.get_run(run_id): self._runs.get(run_id)
get_run(id) ==
    /\ loop = NoRun
    /\ caller' = [op |-> "get_run", arg |-> id,
                  result |-> IF id \in DOMAIN runs THEN "record" ELSE "None"]
    /\ UNCHANGED <<runs, disk, runStateSubs, stateQueues, logQueues, subHist, bus, ready,
                   cpc, rpc, loop, frame, logging, marker, published, emitted, origLevels,
                   now, remote, flow, wait>>

\* RunManager.subscribe(run_id) for an id that is not in the table: run = self._runs[run_id]
\* raises KeyError before run.subscribers.add(q)
subscribe_unknown(id) ==
    /\ loop = NoRun
    /\ id \notin DOMAIN runs
    /\ caller' = Raised("subscribe", id)
    /\ UNCHANGED <<runs, disk, runStateSubs, stateQueues, logQueues, subHist, bus, ready,
                   cpc, rpc, loop, frame, logging, marker, published, emitted, origLevels,
                   now, remote, flow, wait>>

MaxCalls == 2

\* the run ids callers ask for: those the table can hold and one it never holds
AskedIds == 1..(MaxCalls + 1)

NextCalls ==
    \/ \E p \in Paths : start_run_path(p, MaxCalls)
    \/ \E id \in AskedIds : get_run(id)
    \/ \E id \in AskedIds : subscribe_unknown(id)
    \/ \E r \in Runs : subscribe(r, MaxQueues)
    \/ subscribe_runs
    \/ \E r \in Runs : consumer_subscribe(r)
    \/ \E r \in Runs : runner_start(r)

SpecCalls == Init /\ [][NextCalls]_vars

FailedCall(op) == caller' # caller /\ caller'.op = op /\ caller'.result = "raised"

\* C21: when start_run raises because the configuration does not load, the run table, the
\* persisted snapshots, the run-state queues and the set of tasks are what they were
C21_FailedLoadChangesNothing ==
    [][FailedCall("start_run") =>
          UNCHANGED <<runs, disk, runStateSubs, stateQueues, ready, cpc, rpc, bus>>]_vars

\* a start_run on a missing path has raised while a run-state subscriber was listening and an
\* earlier run was registered
C21_Witness ==
    /\ caller = Raised("start_run", "missing.yaml")
    /\ Runs # {}
    /\ runStateSubs # {}

Unknown(id) == id \notin DOMAIN runs

\* C23: get_run on an id that is not in the table returns None, subscribe on it raises, and
\* neither changes the run table or registers a queue
C23_UnknownIdLookups ==
    [][(caller' # caller /\ caller'.op \in {"get_run", "subscribe"} /\ Unknown(caller'.arg))
          => /\ caller'.op = "get_run" => caller'.result = "None"
             /\ caller'.op = "subscribe" => caller'.result = "raised"
             /\ UNCHANGED <<runs, logQueues, subHist, runStateSubs, stateQueues>>]_vars

\* subscribe on an unknown id has raised while another run had a log subscriber
C23_Witness ==
    /\ caller.op = "subscribe"
    /\ caller.result = "raised"
    /\ Unknown(caller.arg)
    /\ \E r \in Runs : runs[r].subscribers # {}

----------------------------------------------------------------------------
(* Two runs on the shared bus, with events no consumer should act on *)

\* what runs on the bus while run r executes: two of r's lifecycle events, an event of a
\* kind the consumer does not know, an event for a run id nobody has, and a non-dict
FilterEvents(r) ==
    {Event("flow_started", r, "", 2, None),
     Event("step_started", r, "sync", 2, None),
     Event("heartbeat", r, "sync", 2, None),
     Event("step_started", MaxRuns + 1, "sync", 2, None),
     NotADict}

RECURSIVE SumLen(_, _)
\* the number of events in the queues f holds for the keys in S
SumLen(f, S) ==
    IF S = {} THEN 0
    ELSE LET x == CHOOSE y \in S : TRUE IN Len(f[x]) + SumLen(f, S \ {x})

\* events published by all runs together
MaxFilterEvents == 2

NextFilter ==
    \/ start_run(<<"sync">>, MaxRuns)
    \/ \E r \in Runs : consumer_subscribe(r)
    \/ \E r \in Runs : runner_start(r)
    \/ \E r \in Runs : \E ev \in FilterEvents(r) :
            /\ SumLen(published, Runs) < MaxFilterEvents
            /\ bus_publish(r, ev, MaxFilterEvents)
    \/ \E r \in Runs : consume_event(r)

SpecFilter == Init /\ [][NextFilter]_vars

\* the fields the consumer writes
Fields(rec) ==
    [status |-> rec.status, started_at |-> rec.started_at, ended_at |-> rec.ended_at,
     steps |-> rec.steps]

\* consumer c takes the event at the head of its queue in this step
Takes(c) ==
    /\ c \in DOMAIN bus /\ bus[c] # <<>>
    /\ c \in DOMAIN bus' => bus'[c] = Tail(bus[c])

\* ev is not a map, is not addressed to r, or is of none of the six kinds
Ignored(ev, r) ==
    \/ ~IsDict(ev)
    \/ ev.run_id # r
    \/ ev.type \notin FlowTypes \cup StepTypes

\* C24: a consumer that takes an event that is not a map, is addressed to another run or is
\* of no lifecycle kind leaves its run's status, started_at, ended_at and steps as they
\* were, and whoever takes an event addressed to run a, no other run b changes
C24_IgnoredEventsChangeNothing ==
    [][\A c \in Runs :
          Takes(c) =>
              /\ Ignored(Head(bus[c]), c) => Fields(runs'[c]) = Fields(runs[c])
              /\ \A b \in Runs :
                    (IsDict(Head(bus[c])) /\ Head(bus[c]).run_id # b)
                        => Fields(runs'[b]) = Fields(runs[b])]_vars

\* run 2's step_started reached both consumers and only run 2 moved, and run 1's consumer
\* has also taken a non-dict
C24_Witness ==
    /\ Runs = {1, 2}
    /\ published[1] = <<NotADict>>
    /\ published[2] = <<Event("step_started", 2, "sync", 2, None)>>
    /\ bus = (1 :> <<>>) @@ (2 :> <<>>)
    /\ runs[1].steps[1].status = "pending"
    /\ runs[2].steps[1].status = "running"

----------------------------------------------------------------------------
(* One run whose executor also publishes step events the consumer cannot digest *)

MalformedEvents(r) ==
    {Event("flow_started", r, "", now, None),
     Event("step_started", r, "sync", now, None),
     Event("step_started", r, NotAString, now, None),
     Event("step_completed", r, "sync", now, None),
     Event("step_completed", r, "sync", now, NotNumeric)}

NextMalformed ==
    \/ start_run(<<"sync">>, 1)
    \/ \E r \in Runs : consumer_subscribe(r)
    \/ \E r \in Runs : runner_start(r)
    \/ \E r \in Runs : \E ev \in MalformedEvents(r) : exec_publish(r, ev, MaxEvents)
    \/ \E r \in Runs : consume_event(r)

SpecMalformed == Init /\ [][NextMalformed]_vars

RECURSIVE ApplyAll(_, _, _)
\* the record after the consumer has applied the events evs one after the other
ApplyAll(rec, evs, t) ==
    IF evs = <<>> THEN rec ELSE ApplyAll(ApplyEvent(rec, Head(evs), t), Tail(evs), t)

\* C26: while the executor of a run is running the run's consumer is subscribed to the bus,
\* and once it has emptied its queue the record is what applying every published event in
\* publication order to the freshly built record gives
C26_EveryEventAppliedInOrder ==
    \A r \in Runs :
        rpc[r] = "executing" =>
            /\ r \in DOMAIN bus
            /\ bus[r] = <<>> =>
                  Fields(runs[r]) =
                      Fields(ApplyAll(RunRecord(r, runs[r].config_path), published[r], now))

\* C29: a consumer that takes an event addressed to its run is still subscribed afterwards
C29_ConsumerSurvivesEveryEvent ==
    [][\A r \in Runs :
          (Takes(r) /\ Head(bus[r]).run_id = r) => (r \in DOMAIN bus' /\ cpc'[r] = cpc[r])]_vars

----------------------------------------------------------------------------
(* Claims on flows that list a step name more than once *)

\* the steps of run r named n whose status is in statuses
Named(r, n, statuses) ==
    {i \in StepsOf(r) : runs[r].steps[i].name = n /\ runs[r].steps[i].status \in statuses}

\* the consumer of r applies a step_started for a name of which a step is already running
\* or terminal
LateStart(r) ==
    /\ Applies(r, {"step_started"})
    /\ Named(r, Lower(Head(bus[r]).step), {"running"} \cup Terminal) # {}

\* C27 as stated: a step_started for name n applied while a step named n is already
\* running or terminal changes no step of the run.
C27_LateStartIgnored ==
    [][\A r \in Runs : LateStart(r) => runs'[r].steps = runs[r].steps]_vars

\* C27 amended: a step_started for name n applied while a step named n is already running
\* or terminal changes no step when no step named n is pending; otherwise it makes the first
\* pending step named n running with the event's start time and changes no other step.
C27_LateStartTakesNextPending ==
    [][\A r \in Runs :
          LateStart(r) =>
              LET ev == Head(bus[r])
                  p == Named(r, Lower(ev.step), {"pending"})
              IN  IF p = {} THEN runs'[r].steps = runs[r].steps
                  ELSE \A i \in StepsOf(r) :
                          runs'[r].steps[i] =
                              IF \A j \in p : i <= j /\ i \in p
                              THEN [runs[r].steps[i] EXCEPT !.status = "running",
                                                            !.started_at = TsOf(ev, now)]
                              ELSE runs[r].steps[i]]_vars

\* C27's case: in a flow that lists the name twice, three step_started events were applied;
\* the second started the second step while the first was running, the third changed nothing
C27_Witness ==
    \E r \in Runs :
        /\ Len(runs[r].steps) = 2 /\ Drained(r) /\ Len(published[r]) = 3
        /\ \A k \in 1..3 : published[r][k].type = "step_started"
        /\ published[r][1].ts = 0 /\ published[r][2].ts = 2 /\ published[r][3].ts = None
        /\ runs[r].steps[1].status = "running" /\ runs[r].steps[1].started_at = 0
        /\ runs[r].steps[2].status = "running" /\ runs[r].steps[2].started_at = 2


\* the longest flow an ordered executor is given
MaxFlowLen == 2

\* every flow of at most MaxFlowLen steps over two names, repeated names included
OrderedConfigs == UNION {[1..n -> {"sync", "create"}] : n \in 1..MaxFlowLen}

\* what an executor that runs the steps in order publishes next for run r: step_started for
\* the step it is at, then step_completed or step_failed for it, then on to the next step
OrderedEvents(r) ==
    LET k == Len(published[r])
        i == (k \div 2) + 1
        names == runs[r].config_path
    IN  IF i > Len(names) THEN {}
        ELSE IF k % 2 = 0
        THEN {Event("step_started", r, names[i], ts, None) : ts \in Stamps}
        ELSE {Event(t, r, names[i], ts, None) :
                  t \in {"step_completed", "step_failed"}, ts \in EndStamps}

NextOrdered ==
    \/ \E names \in OrderedConfigs : start_run(names, 1)
    \/ \E r \in Runs : consumer_subscribe(r)
    \/ \E r \in Runs : runner_start(r)
    \/ \E r \in Runs : \E ev \in OrderedEvents(r) : exec_publish(r, ev, 2 * MaxFlowLen)
    \/ \E r \in Runs : consume_event(r)

SpecOrdered == Init /\ [][NextOrdered]_vars

StatusFor(type) == IF type = "step_completed" THEN "passed" ELSE "failed"

\* C28: with an executor that runs the steps in order, once the consumer has applied what
\* was published, the i-th start/finish pair has gone to the i-th step by index, also among
\* steps of one name: the steps whose pair is complete are terminal with that pair's
\* verdict and times, the step whose start alone was published is running, and every later
\* step, of the same name or not, is still pending and untouched
C28_PairsGoToStepsInOrder ==
    \A r \in Runs :
        Drained(r) =>
            \A j \in StepsOf(r) :
                LET s == runs[r].steps[j]
                    pub == published[r]
                IN  IF 2 * j <= Len(pub)
                    THEN /\ s.status = StatusFor(pub[2 * j].type)
                         /\ s.started_at = TsOf(pub[2 * j - 1], now)
                         /\ s.ended_at = TsOf(pub[2 * j], now)
                    ELSE IF 2 * j - 1 = Len(pub)
                    THEN /\ s.status = "running"
                         /\ s.started_at = TsOf(pub[2 * j - 1], now)
                         /\ s.ended_at = None
                    ELSE s = StepRecord(s.name, j - 1)

\* C28's case: the flow lists sync twice; after the first pair only the first sync is
\* terminal and the second is still pending
C28_Witness ==
    \E r \in Runs :
        /\ Len(runs[r].steps) = 2 /\ Drained(r) /\ Len(published[r]) = 2
        /\ runs[r].steps[1].name = "sync" /\ runs[r].steps[2].name = "sync"
        /\ runs[r].steps[1].status = "failed"
        /\ runs[r].steps[2].status = "pending"

----------------------------------------------------------------------------
(* Claim on the log and the queues of the subscribers still registered *)

IsPrefix(s, t) == Len(s) <= Len(t) /\ SubSeq(t, 1, Len(s)) = s

\* C30: every step only appends to a run's log, and afterwards the lines put so far on the
\* queue of each log subscriber still registered on its run are the log from position
\* max(0, n - window), n being the log length when it subscribed, up to the current end
C30_RegisteredQueueIsLogSlice ==
    [][/\ \A r \in Runs : IsPrefix(runs[r].logs, runs'[r].logs)
       /\ \A q \in DOMAIN logQueues' :
             q \in runs'[logQueues'[q].run].subscribers =>
                 logQueues'[q].put =
                     Slice(runs'[logQueues'[q].run].logs, WindowStart(subHist'[q].at),
                           Len(runs'[logQueues'[q].run].logs))]_vars

\* a subscriber that joined when the log was longer than the window is still registered
\* after a later line, having been replayed the window and sent that line
C30_Witness ==
    \E q \in DOMAIN logQueues :
        /\ q \in runs[logQueues[q].run].subscribers
        /\ subHist[q].at > ReplayWindow
        /\ Len(runs[logQueues[q].run].logs) > subHist[q].at
        /\ logQueues[q].taken > 0

----------------------------------------------------------------------------
(* The remote store configured (REDIS_HOST set, redis importable) and failing on every
   call. persist_state and broadcast do all their local work first and then hand the
   remote part to a task of its own; what such a task does when the store fails is the
   only thing the process does that local-only mode does not. *)

\* the _push_and_publish tasks created so far: one for every line broadcast
PushTasks == SumLen([r \in Runs |-> runs[r].logs], Runs)

\* the _persist_and_publish tasks created so far by the persist_state of start_run
PersistTasks == Cardinality(Runs)

\* a _persist_and_publish task runs: the store raises inside its try, except Exception: pass
remote_persist_fails ==
    /\ loop = NoRun
    /\ remote.persist < PersistTasks
    /\ remote' = [remote EXCEPT !.persist = @ + 1]
    /\ UNCHANGED <<runs, disk, runStateSubs, stateQueues, logQueues, subHist, bus, ready,
                   cpc, rpc, loop, frame, logging, marker, published, emitted, origLevels,
                   now, caller, flow, wait>>

\* a _push_and_publish task runs: lpush raises, the finally closes the client and the
\* exception ends the task; nobody awaits the task, so the event loop reports the
\* exception through the "asyncio" logger at ERROR, outside every run's context
remote_push_fails ==
    LET record == [level |-> ERROR, logger |-> "asyncio", n |-> remote.push + 1]
        w == Dispatch(World, logging, NoRun, record)
    IN  /\ loop = NoRun
        /\ remote.push < PushTasks
        /\ remote' = [remote EXCEPT !.push = @ + 1]
        /\ runs' = w.runs
        /\ disk' = w.disk
        /\ logQueues' = w.lq
        /\ subHist' = w.gh
        /\ UNCHANGED <<runStateSubs, stateQueues, bus, ready, cpc, rpc, loop, frame,
                       logging, marker, published, emitted, origLevels, now, caller, flow, wait>>

\* what the process does in local-only mode
NextLocalOnly ==
    \/ start_run(<<"sync">>, 1)
    \/ \E r \in Runs : consumer_subscribe(r)
    \/ \E r \in Runs : runner_start(r)
    \/ \E r \in Runs : \E ev \in PersistEvents(r) : exec_publish(r, ev, MaxPairEvents)
    \/ \E r \in Runs : consume_event(r)
    \/ \E r \in Runs : exec_log(r, INFO, "datamonkey")
    \/ \E r \in Runs : \E o \in Outcomes : runner_finish(r, o)
    \/ \E r \in Runs : subscribe(r, 1)

NextRemote ==
    \/ NextLocalOnly
    \/ remote_persist_fails
    \/ remote_push_fails

SpecRemote == Init /\ [][NextRemote]_vars

\* everything but the remote tasks
localView ==
    <<runs, disk, runStateSubs, stateQueues, logQueues, subHist, bus, ready, cpc, rpc,
      loop, frame, logging, marker, published, emitted, origLevels, now, caller>>

----------------------------------------------------------------------------
(* Claim on the status line that closes a run's log *)

\* C31: once the runner of a run has finished, the last line of the run's log is the line
\* 'Run finished with status: S', S is passed or failed, and when every event published for
\* the run has been consumed S is the run's status
C31_StatusLineIsFinalVerdict ==
    \A r \in Runs :
        RunnerDone(r) =>
            /\ runs[r].logs # <<>>
            /\ Last(runs[r].logs).kind = "finished"
            /\ \E s \in Terminal : Last(runs[r].logs) = FinishedLine(r, s)
            /\ Drained(r) => Last(runs[r].logs) = FinishedLine(r, runs[r].status)

----------------------------------------------------------------------------
(* Claim on the records of a run whose neighbour starts or finishes meanwhile *)

\* C32: a record of level INFO emitted under a run's marker while its executor is
\* executing, by a logger that inherits the root logger's level, is appended to that run's
\* log, whatever other runs have started or finished in the meantime
C32_EveryInfoRecordIsLogged ==
    [][\A r \in Runs :
          (rpc[r] = "executing" /\ marker[r] = r /\ exec_log(r, INFO, "datamonkey"))
              => runs'[r].logs =
                     Append(runs[r].logs,
                            RecordLine(r, [level |-> INFO, logger |-> "datamonkey",
                                           n |-> emitted[r] + 1]))]_vars

----------------------------------------------------------------------------
(* Claim on the end of the event consumer *)

\* the runner of r has finished and the consumer has applied a flow-end event and
\* everything else published for r
Finalized(r) ==
    /\ RunnerDone(r)
    /\ \E i \in 1..Len(published[r]) : published[r][i].type \in {"flow_completed", "flow_failed"}
    /\ r \in DOMAIN bus => bus[r] = <<>>

\* C33: when nothing is left to happen, no finalized run still has a consumer subscribed to
\* the bus: the subscriptions left are at most those of the runs that are not finalized
C33_FinalizedConsumerUnsubscribes ==
    ~(ENABLED NextPair) =>
        /\ \A r \in Runs : Finalized(r) => (r \notin DOMAIN bus /\ cpc[r] = "ended")
        /\ Cardinality(DOMAIN bus) <= Cardinality({r \in Runs : ~Finalized(r)})


-----------------------------------------------------------------------------
(* TestFlow.execute: the configured steps one after another, cleanup when one raises *)

MaxFlowSteps == 3

\* config.test_flow.steps: any list of step names, known to the factory or not
FlowConfigs == UNION {[1..n -> {"create", "sync", "bogus"}] : n \in 0..MaxFlowSteps}

\* TestFlow.create(config)
TestFlow_create(steps) ==
    /\ flow.pc = "none"
    /\ flow' = [NoFlow EXCEPT !.pc = "loop", !.steps = steps]
    /\ UNCHANGED <<runs, disk, runStateSubs, stateQueues, logQueues, subHist, bus, ready, cpc,
                   rpc, loop, frame, logging, marker, published, emitted, origLevels, now,
                   caller, remote, wait>>

\* _execute_step up to the await: the factory builds the step or raises ValueError for a name
\* it does not know, and step.execute() starts
execute_step_begin ==
    /\ flow.pc = "loop"
    /\ flow.i <= Len(flow.steps)
    /\ flow' = IF flow.steps[flow.i] \in KnownSteps
                 THEN [flow EXCEPT !.pc = "in_step", !.executed = Append(@, flow.i)]
                 ELSE [flow EXCEPT !.pc = "failed",
                                   !.error = [type |-> "ValueError", step |-> flow.i]]
    /\ UNCHANGED <<runs, disk, runStateSubs, stateQueues, logQueues, subHist, bus, ready, cpc,
                   rpc, loop, frame, logging, marker, published, emitted, origLevels, now,
                   caller, remote, wait>>

\* step.execute() finishes: the loop goes on to the next name, or the exception leaves
\* _execute_step and the for loop
execute_step_end(raises) ==
    /\ flow.pc = "in_step"
    /\ flow' = IF raises
                 THEN [flow EXCEPT !.pc = "failed",
                                   !.error = [type |-> "Exception", step |-> flow.i]]
                 ELSE [flow EXCEPT !.pc = "loop", !.i = @ + 1]
    /\ UNCHANGED <<runs, disk, runStateSubs, stateQueues, logQueues, subHist, bus, ready, cpc,
                   rpc, loop, frame, logging, marker, published, emitted, origLevels, now,
                   caller, remote, wait>>

\* the for loop is exhausted: execute returns
execute_returns ==
    /\ flow.pc = "loop"
    /\ flow.i > Len(flow.steps)
    /\ flow' = [flow EXCEPT !.pc = "returned"]
    /\ UNCHANGED <<runs, disk, runStateSubs, stateQueues, logQueues, subHist, bus, ready, cpc,
                   rpc, loop, frame, logging, marker, published, emitted, origLevels, now,
                   caller, remote, wait>>

\* TestFlow.cleanup(): True, or False when a delete raised; it catches every Exception itself
cleanup(deleteRaises) == ~deleteRaises

\* the handler with the exception of a failing cleanup leaving execute in place of the step's
execute_except_masked(deleteRaises) ==
    /\ flow.pc = "failed"
    /\ flow' = [flow EXCEPT !.pc = "raised",
                            !.cleanups = Append(@, cleanup(deleteRaises)),
                            !.raised = IF deleteRaises
                                         THEN [type |-> "CleanupError", step |-> flow.error.step]
                                         ELSE flow.error]
    /\ UNCHANGED <<runs, disk, runStateSubs, stateQueues, logQueues, subHist, bus, ready, cpc,
                   rpc, loop, frame, logging, marker, published, emitted, origLevels, now,
                   caller, remote, wait>>

\* the outer except of execute: cleanup inside its own try, then the bare raise
execute_except(deleteRaises) ==
    /\ flow.pc = "failed"
    /\ flow' = [flow EXCEPT !.pc = "raised",
                            !.cleanups = Append(@, cleanup(deleteRaises)),
                            !.raised = flow.error]
    /\ UNCHANGED <<runs, disk, runStateSubs, stateQueues, logQueues, subHist, bus, ready, cpc,
                   rpc, loop, frame, logging, marker, published, emitted, origLevels, now,
                   caller, remote, wait>>

NextExecute ==
    \/ \E steps \in FlowConfigs : TestFlow_create(steps)
    \/ execute_step_begin
    \/ \E raises \in BOOLEAN : execute_step_end(raises)
    \/ execute_returns
    \/ \E deleteRaises \in BOOLEAN : execute_except(deleteRaises)

SpecExecute == Init /\ [][NextExecute]_vars

\* C34: the steps executed are the first k of the list, in order and each once, with at most
\* one in progress; when a step raised, nothing after it was executed, cleanup was called
\* exactly once and the step's exception left execute whatever cleanup returned; when execute
\* returned, every step was executed, cleanup was not called and nothing was raised
C34_StepsInOrderThenVerdict ==
    LET n == Len(flow.steps)
        k == Len(flow.executed)
        begun == IF flow.error.type = "ValueError" THEN flow.error.step - 1 ELSE flow.error.step
    IN  /\ flow.executed = [j \in 1..k |-> j]
        /\ k <= n
        /\ flow.pc = "in_step" => k = flow.i
        /\ flow.pc = "loop" => k = flow.i - 1
        /\ flow.pc \in {"failed", "raised"} => (flow.error # NoError /\ k = begun)
        /\ flow.pc = "raised" => (Len(flow.cleanups) = 1 /\ flow.raised = flow.error)
        /\ flow.pc # "raised" => (flow.cleanups = <<>> /\ flow.raised = NoError)
        /\ flow.pc = "returned" => (k = n /\ flow.error = NoError)

\* a step that is not the last raised, cleanup failed, and the step's exception propagated
C34_Witness ==
    /\ flow.pc = "raised"
    /\ flow.error.type = "Exception"
    /\ flow.error.step = 2
    /\ Len(flow.steps) = 3
    /\ flow.cleanups = <<FALSE>>


-----------------------------------------------------------------------------
(* SyncStep._wait_for_sync_completion: poll the latest sync job until it is over *)

\* timeout_seconds over the sleep between two polls (300 over 5 in the source)
MaxSleeps == 3

\* what one poll finds: the listing call raises, there is no job yet, or the status of jobs[0]
\* ("cancelled" stands for every status the if/elif chain does not name)
PollResults ==
    {"error", "absent", "created", "pending", "in_progress", "completed", "failed", "cancelled"}

\* the call: start_time is taken
wait_start ==
    /\ wait.pc = "none"
    /\ wait' = [wait EXCEPT !.pc = "polling"]
    /\ UNCHANGED <<runs, disk, runStateSubs, stateQueues, logQueues, subHist, bus, ready, cpc,
                   rpc, loop, frame, logging, marker, published, emitted, origLevels, now,
                   caller, remote, flow>>

\* one turn of the while loop, the ceiling not yet reached: completed returns; failed raises
\* inside the try, and so does a failing listing call: the except of the same try logs a
\* warning and sleeps; every other result sleeps; after the sleep the loop goes round again
wait_poll(res) ==
    /\ wait.pc = "polling"
    /\ wait.slept < MaxSleeps
    /\ wait' = IF res = "completed"
                 THEN [wait EXCEPT !.pc = "returned", !.polls = Append(@, res)]
                 ELSE IF res \in {"failed", "error"}
                        THEN [wait EXCEPT !.polls = Append(@, res), !.warnings = @ + 1,
                                          !.slept = @ + 1]
                        ELSE [wait EXCEPT !.polls = Append(@, res), !.slept = @ + 1]
    /\ UNCHANGED <<runs, disk, runStateSubs, stateQueues, logQueues, subHist, bus, ready, cpc,
                   rpc, loop, frame, logging, marker, published, emitted, origLevels, now,
                   caller, remote, flow>>

\* the while condition is false: the ceiling is reached
wait_timeout ==
    /\ wait.pc = "polling"
    /\ wait.slept >= MaxSleeps
    /\ wait' = [wait EXCEPT !.pc = "raised", !.raised = "Sync timeout reached"]
    /\ UNCHANGED <<runs, disk, runStateSubs, stateQueues, logQueues, subHist, bus, ready, cpc,
                   rpc, loop, frame, logging, marker, published, emitted, origLevels, now,
                   caller, remote, flow>>

NextWait ==
    \/ wait_start
    \/ \E res \in PollResults : wait_poll(res)
    \/ wait_timeout

SpecWait == Init /\ [][NextWait]_vars

\* C35: a poll that finds the job failed is the last poll and the wait has raised 'Sync failed';
\* a poll that finds it completed is the last poll and the wait has returned; a poll is
\* followed by another only when it found the job created, pending, in_progress or absent
\* (or could not list the jobs at all)
C35_FailedEndsTheWait ==
    \A i \in 1..Len(wait.polls) :
        /\ wait.polls[i] = "failed" =>
               (i = Len(wait.polls) /\ wait.pc = "raised" /\ wait.raised = "Sync failed")
        /\ wait.polls[i] = "completed" => (i = Len(wait.polls) /\ wait.pc = "returned")
        /\ i < Len(wait.polls) =>
               wait.polls[i] \in {"created", "pending", "in_progress", "absent", "error"}

====
